---------------------------- MODULE Spec2Model ----------------------------
(***************************************************************************)
(* Model of the second-order optimisation loop of train_comp.py: the step  *)
(* computation (direct Hessian solve with least-squares fallback, and      *)
(* conjugate gradient), the curvature guard, the backtracking line search, *)
(* the best-iterate bookkeeping and the finalisation of the result.        *)
(*                                                                         *)
(* Real numbers are exact rationals <<n, d>> (d > 0, lowest terms);        *)
(* tensors are sequences of rationals, matrices sequences of rows.  The    *)
(* loss/gradient/Hessian oracle (param2loss and its autograd derivatives)  *)
(* is a deterministic but otherwise arbitrary function: its value at a     *)
(* point is chosen when the point is first evaluated and remembered.       *)
(***************************************************************************)
EXTENDS Integers, Sequences, FiniteSets, TLC

(***************************************************************************)
(* Bounds of the model.                                                    *)
(***************************************************************************)
MaxEpochs == 2
MaxIterBound == 3
MaxLoss == 2
MaxFrames == 3
LsRange == 1

(***************************************************************************)
(* Exact rational arithmetic (the tensor arithmetic of torch, without      *)
(* rounding).                                                              *)
(***************************************************************************)
Abs(x) == IF x < 0 THEN -x ELSE x

RECURSIVE GCD(_, _)
GCD(a, b) == IF b = 0 THEN a ELSE GCD(b, a % b)

\* n/d in lowest terms; as in floating point, x/0 is an infinity <<1, 0>> or
\* <<-1, 0>> and 0/0 is not-a-number <<0, 0>>
Rat(n, d) ==
  LET s == IF d < 0 THEN -1 ELSE 1
      k == GCD(Abs(n), Abs(d))
  IN  IF k = 0 THEN <<0, 0>> ELSE <<(s * n) \div k, (s * d) \div k>>

RInt(n) == <<n, 1>>
RAdd(a, b) == Rat(a[1] * b[2] + b[1] * a[2], a[2] * b[2])
RNeg(a) == <<-a[1], a[2]>>
RSub(a, b) == RAdd(a, RNeg(b))
RMul(a, b) == Rat(a[1] * b[1], a[2] * b[2])
RDiv(a, b) == Rat(a[1] * b[2], a[2] * b[1])
IsNaN(a) == a = <<0, 0>>
RLess(a, b) ==
  IF a[2] = 0 /\ b[2] = 0
    THEN a[1] = -1 /\ b[1] = 1
    ELSE a[1] * b[2] < b[1] * a[2]
RLeq(a, b) == ~IsNaN(a) /\ ~IsNaN(b) /\ (a = b \/ RLess(a, b))
RZero == RInt(0)
ROne == RInt(1)
Relu(a) == IF RLess(a, RZero) THEN RZero ELSE a

ISqrt(n) == CHOOSE k \in 0..n : k * k = n
RSqrt(a) == <<ISqrt(a[1]), ISqrt(a[2])>>

RECURSIVE RPow(_, _)
RPow(a, k) == IF k = 0 THEN ROne ELSE RMul(a, RPow(a, k - 1))

(***************************************************************************)
(* Vectors and matrices.                                                   *)
(***************************************************************************)
Vec(ints) == [k \in 1..Len(ints) |-> RInt(ints[k])]
Mat(rows) == [k \in 1..Len(rows) |-> Vec(rows[k])]
ZerosLike(v) == [k \in 1..Len(v) |-> RZero]
VAdd(u, v) == [k \in 1..Len(u) |-> RAdd(u[k], v[k])]
VNeg(v) == [k \in 1..Len(v) |-> RNeg(v[k])]
VScale(a, v) == [k \in 1..Len(v) |-> RMul(a, v[k])]
VSubScalar(v, a) == [k \in 1..Len(v) |-> RSub(v[k], a)]

RECURSIVE DotUpTo(_, _, _)
DotUpTo(u, v, n) ==
  IF n = 0 THEN RZero ELSE RAdd(DotUpTo(u, v, n - 1), RMul(u[n], v[n]))
Dot(u, v) == DotUpTo(u, v, Len(u))
Norm(v) == RSqrt(Dot(v, v))

MatVec(H, v) == [r \in 1..Len(H) |-> Dot(H[r], v)]
Transpose(H) == [c \in 1..Len(H) |-> [r \in 1..Len(H) |-> H[r][c]]]
MatAdd(A, B) == [r \in 1..Len(A) |-> VAdd(A[r], B[r])]
DropAt(s, k) == [j \in 1..(Len(s) - 1) |-> IF j < k THEN s[j] ELSE s[j + 1]]
Minor(H, c) == [r \in 1..(Len(H) - 1) |-> DropAt(H[r + 1], c)]

RECURSIVE Det(_)
RECURSIVE DetExpand(_, _)
DetExpand(H, c) ==
  IF c = 0 THEN RZero
  ELSE RAdd(DetExpand(H, c - 1),
            RMul(RMul(RInt(IF c % 2 = 1 THEN 1 ELSE -1), H[1][c]),
                 Det(Minor(H, c))))
Det(H) == IF Len(H) = 0 THEN ROne ELSE DetExpand(H, Len(H))

ReplaceCol(H, c, b) ==
  [r \in 1..Len(H) |-> [j \in 1..Len(H) |-> IF j = c THEN b[r] ELSE H[r][j]]]

(***************************************************************************)
(* torch.linalg.solve and torch.linalg.lstsq, in exact arithmetic.  solve  *)
(* raises on a singular matrix; lstsq returns the minimum-norm solution of *)
(* the normal equations (searched among the integer vectors of LstsqCands).*)
(***************************************************************************)
SolveRaises(hess) == Det(hess) = RZero

Solve(hess, b) ==
  [k \in 1..Len(hess) |-> RDiv(Det(ReplaceCol(hess, k, b)), Det(hess))]

LstsqCands(n) == {Vec(x) : x \in [1..n -> (-LsRange)..LsRange]}

IsLeastSquares(hess, b, x) ==
  MatVec(Transpose(hess), MatVec(hess, x)) = MatVec(Transpose(hess), b)

Lstsq(hess, b) ==
  CHOOSE x \in LstsqCands(Len(b)) :
    /\ IsLeastSquares(hess, b, x)
    /\ \A y \in LstsqCands(Len(b)) :
         IsLeastSquares(hess, b, y) => RLeq(Dot(x, x), Dot(y, y))

\* variant: the fallback branch without the negation
direct_hess_step_unnegated(hess, g) ==
  IF ~SolveRaises(hess) THEN VNeg(Solve(hess, g)) ELSE Lstsq(hess, g)

\* direct_hess_step(hess_func, g), given the value hess_func() returns
direct_hess_step(hess, g) ==
  IF ~SolveRaises(hess) THEN VNeg(Solve(hess, g)) ELSE VNeg(Lstsq(hess, g))

(***************************************************************************)
(* Configuration (cfg.optimiser.alpha, cfg.optimiser.beta) and the inputs  *)
(* the oracle and the random generator can produce.                        *)
(***************************************************************************)
alpha == Rat(1, 2)
beta == Rat(1, 2)

Undef == << >>
InitParams == Vec(<<0, 0>>)
InitLoss == RInt(1)
LossVals == {RInt(k) : k \in 0..MaxLoss}

Identity2 == Mat(<<<<1, 0>>, <<0, 1>>>>)
NegIdentity2 == Mat(<<<<-1, 0>>, <<0, -1>>>>)
Zero2 == Mat(<<<<0, 0>>, <<0, 0>>>>)
Rank1 == Mat(<<<<1, 0>>, <<0, 0>>>>)
Indef2 == Mat(<<<<1, 0>>, <<0, -1>>>>)

\* (gradient, Hessian) pairs autograd can return at a point
Derivs ==
  { [g |-> Vec(<<2, 0>>), hess |-> Identity2],
    [g |-> Vec(<<3, 4>>), hess |-> NegIdentity2],
    [g |-> Vec(<<1, 1>>), hess |-> Rank1],
    [g |-> Vec(<<0, 0>>), hess |-> Identity2],
    [g |-> Vec(<<1, 0>>), hess |-> Zero2],
    [g |-> Vec(<<1, 1>>), hess |-> Indef2] }

\* values of torch.randn_like(step) / step.numel() ** 0.5
RandSteps == {Vec(<<1, 0>>), Vec(<<0, 1>>)}

VARIABLES
  epochs, max_iter,                      \* cfg.epochs, cfg.optimiser.max_iter
  params, prev_loss, optimal_params, lowest_loss, t, i,
  global_step, g, hess, step, lambda_norm, upper_bound, params_new, loss,
  it,                                    \* position of range(max_iter)
  n_logged,                              \* len(peak_mem_list)
  pbar_dict,                             \* diagnostics of the last iteration
  ckpt,                                  \* content of logits.pt
  pc,
  lossAt, derivAt,                       \* the oracle, as far as evaluated
  accepted, trials, evals, route, exit_cause,  \* history of the run
  iter_start                             \* state when the iteration began

VARIABLES
  cg_hess, cg_g,                         \* conjugate_gradient: Hessian of func at p, g
  r_t, p_t, v_t, cg_pc, cg_ret,
  cg_iters                               \* passes of the while loop so far

VARIABLES
  frames,                                \* per-frame Hessians of the loss at params
  batch_size,                            \* cfg.data.batch_size
  hb_next, hb_acc, hb_pc, hb_ret,        \* hess_func(): position in the sum
  hb_used                                \* frames that went into the sum so far

cgVars == <<cg_hess, cg_g, r_t, p_t, v_t, cg_pc, cg_ret, cg_iters>>
hessVars == <<frames, batch_size, hb_next, hb_acc, hb_pc, hb_ret, hb_used>>

mainVars ==
  <<epochs, max_iter, params, prev_loss, optimal_params, lowest_loss, t, i,
    global_step, g, hess, step, lambda_norm, upper_bound, params_new, loss,
    it, n_logged, pbar_dict, ckpt, pc, lossAt, derivAt, accepted, trials,
    evals, route, exit_cause, iter_start>>

(***************************************************************************)
(* The expressions of the loop body that decide its control flow.         *)
(***************************************************************************)
\* lambda_norm = -g @ step
Curvature(grad, stp) == RNeg(Dot(grad, stp))

\* variant: the guard written with <=
NonDescentOrZero(lam) == RLeq(lam, RZero)

\* if lambda_norm < 0
NonDescent(lam) == RLess(lam, RZero)

\* ortho_step = random_step - random_step @ step / step.norm()
OrthoStep(random_step, stp) ==
  VSubScalar(random_step, RDiv(Dot(random_step, stp), Norm(stp)))

\* variant: the bound without the factor alpha
UpperBoundNoAlpha(prev, tt, lam) == RAdd(prev, RMul(tt, Relu(lam)))

\* upper_bound = prev_loss + alpha * t * lambda_norm.relu()
UpperBound(prev, tt, lam) == RAdd(prev, RMul(RMul(alpha, tt), Relu(lam)))

\* variant: a loss equal to the bound is accepted too
AcceptsOrEqual(l, ub) == RLeq(l, ub)

\* if loss < upper_bound: break
Accepts(l, ub) == RLess(l, ub)

\* if i == max_iter - 1
LineSearchFailed(ii, mi) == ii = mi - 1

\* variant: the comparison the wrong way round
NewBestReversed(l, lowest) == RLess(lowest, l)

\* variant: the comparison written with <=
NewBestOrEqual(l, lowest) == RLeq(l, lowest)

\* if loss < lowest_loss
NewBest(l, lowest) == RLess(l, lowest)

\* variant: the last iterate is saved
SavedLastIterate(best, current) == current

\* torch.save(optimal_params, ckpt_dir / "logits.pt")
SavedValue(best, current) == best

\* the oracle table after evaluating it at pt with result v
Evaluated(tab, pt, v) == (pt :> v) @@ tab

\* v is what a deterministic oracle with table tab can return at pt
Returns(tab, pt, v) == pt \in DOMAIN tab => tab[pt] = v

(***************************************************************************)
(* State after lines 234-246: the initial loss is evaluated, the initial   *)
(* parameters are cloned as the best so far.                               *)
(***************************************************************************)
MainInit ==
  /\ epochs \in 0..MaxEpochs
  /\ max_iter \in 0..MaxIterBound
  /\ params = InitParams
  /\ prev_loss = InitLoss
  /\ lossAt = (InitParams :> prev_loss)
  /\ derivAt = << >>
  /\ optimal_params = params
  /\ lowest_loss = prev_loss
  /\ t = ROne
  /\ i = 0
  /\ it = 0
  /\ global_step = 0
  /\ g = Undef
  /\ hess = Undef
  /\ step = Undef
  /\ lambda_norm = Undef
  /\ upper_bound = Undef
  /\ params_new = Undef
  /\ loss = Undef
  /\ n_logged = 0
  /\ pbar_dict = Undef
  /\ ckpt = Undef
  /\ pc = "loop"
  /\ accepted = <<prev_loss>>
  /\ trials = << >>
  /\ evals = 0
  /\ route = "none"
  /\ exit_cause = "none"
  /\ iter_start = [params |-> params, optimal_params |-> optimal_params,
                   lowest_loss |-> lowest_loss, evals |-> 0]

\* for global_step in pbar: g = jacobian(param2loss, params)
Gradient ==
  /\ pc = "loop"
  /\ global_step < epochs
  /\ \E d \in Derivs :
       /\ Returns(derivAt, params, d)
       /\ derivAt' = Evaluated(derivAt, params, d)
       /\ g' = d.g
  /\ pc' = "step"
  /\ route' = "none"
  /\ trials' = << >>
  /\ iter_start' = [params |-> params, optimal_params |-> optimal_params,
                    lowest_loss |-> lowest_loss, evals |-> evals]
  /\ UNCHANGED <<epochs, max_iter, params, prev_loss, optimal_params,
                 lowest_loss, t, i, global_step, hess, step, lambda_norm,
                 upper_bound, params_new, loss, it, n_logged, pbar_dict,
                 ckpt, lossAt, accepted, evals, exit_cause, cgVars,
                 hessVars>>

\* range(cfg.epochs) is used up: the loop ends
BudgetExhausted ==
  /\ pc = "loop"
  /\ global_step = epochs
  /\ pc' = "finalize"
  /\ exit_cause' = "exhausted"
  /\ UNCHANGED <<epochs, max_iter, params, prev_loss, optimal_params,
                 lowest_loss, t, i, global_step, g, hess, step, lambda_norm,
                 upper_bound, params_new, loss, it, n_logged, pbar_dict,
                 ckpt, lossAt, derivAt, accepted, trials, evals, route,
                 iter_start, cgVars, hessVars>>

\* method "direct": step = direct_hess_step(hess_func, g); the three
\* measurement lists grow by one entry
ComputeStep ==
  /\ pc = "step"
  /\ hess' = derivAt[params].hess
  /\ step' = direct_hess_step(hess', g)
  /\ n_logged' = n_logged + 1
  /\ pc' = "curv"
  /\ UNCHANGED <<epochs, max_iter, params, prev_loss, optimal_params,
                 lowest_loss, t, i, global_step, g, lambda_norm,
                 upper_bound, params_new, loss, it, pbar_dict, ckpt, lossAt,
                 derivAt, accepted, trials, evals, route, exit_cause,
                 iter_start, cgVars, hessVars>>

\* lambda_norm = -g @ step; if lambda_norm < 0: ... else: t = 1; i = 0;
\* upper_bound = ...
CurvatureGuard ==
  /\ pc = "curv"
  /\ lambda_norm' = Curvature(g, step)
  /\ IF NonDescent(lambda_norm')
       THEN /\ pc' = "fallback"
            /\ route' = "fallback"
            /\ UNCHANGED <<t, i, it, upper_bound>>
       ELSE /\ t' = ROne
            /\ i' = 0
            /\ it' = 0
            /\ upper_bound' = UpperBound(prev_loss, t', lambda_norm')
            /\ pc' = "ls"
            /\ route' = "linesearch"
  /\ UNCHANGED <<epochs, max_iter, params, prev_loss, optimal_params,
                 lowest_loss, global_step, g, hess, step, params_new, loss,
                 n_logged, pbar_dict, ckpt, lossAt, derivAt, accepted,
                 trials, evals, exit_cause, iter_start, cgVars, hessVars>>

\* the negative-curvature branch: a random step made "orthogonal", applied
\* with no line search
NonDescentFallback ==
  /\ pc = "fallback"
  /\ \E random_step \in RandSteps, l \in LossVals :
       /\ step' = OrthoStep(random_step, step)
       /\ params_new' = VAdd(params, step')
       /\ Returns(lossAt, params_new', l)
       /\ lossAt' = Evaluated(lossAt, params_new', l)
       /\ loss' = l
  /\ evals' = evals + 1
  /\ pc' = "book"
  /\ UNCHANGED <<epochs, max_iter, params, prev_loss, optimal_params,
                 lowest_loss, t, i, global_step, g, hess, lambda_norm,
                 upper_bound, it, n_logged, pbar_dict, ckpt, derivAt,
                 accepted, trials, exit_cause, route,
                 iter_start, cgVars, hessVars>>

\* one pass of "for i in range(max_iter)"
LineSearchTry ==
  /\ pc = "ls"
  /\ it < max_iter
  /\ i' = it
  /\ it' = it + 1
  /\ params_new' = VAdd(params, VScale(t, step))
  /\ \E l \in LossVals :
       /\ Returns(lossAt, params_new', l)
       /\ lossAt' = Evaluated(lossAt, params_new', l)
       /\ loss' = l
  /\ evals' = evals + 1
  /\ trials' = Append(trials, [k |-> it, t |-> t, at |-> params_new',
                               loss |-> loss',
                               broke |-> Accepts(loss', upper_bound)])
  /\ IF Accepts(loss', upper_bound)
       THEN t' = t /\ pc' = "lscheck"
       ELSE t' = RMul(t, beta) /\ pc' = "ls"
  /\ UNCHANGED <<epochs, max_iter, params, prev_loss, optimal_params,
                 lowest_loss, global_step, g, hess, step, lambda_norm,
                 upper_bound, n_logged, pbar_dict, ckpt, derivAt, accepted,
                 route, exit_cause,
                 iter_start, cgVars, hessVars>>

\* range(max_iter) is used up without a break
LineSearchExhausted ==
  /\ pc = "ls"
  /\ it = max_iter
  /\ pc' = "lscheck"
  /\ UNCHANGED <<epochs, max_iter, params, prev_loss, optimal_params,
                 lowest_loss, t, i, global_step, g, hess, step, lambda_norm,
                 upper_bound, params_new, loss, it, n_logged, pbar_dict,
                 ckpt, lossAt, derivAt, accepted, trials, evals, route,
                 exit_cause,
                 iter_start, cgVars, hessVars>>

\* if i == max_iter - 1: print("Line search failed"); break
LineSearchCheck ==
  /\ pc = "lscheck"
  /\ IF LineSearchFailed(i, max_iter)
       THEN pc' = "finalize" /\ exit_cause' = "break"
       ELSE pc' = "book" /\ UNCHANGED exit_cause
  /\ UNCHANGED <<epochs, max_iter, params, prev_loss, optimal_params,
                 lowest_loss, t, i, global_step, g, hess, step, lambda_norm,
                 upper_bound, params_new, loss, it, n_logged, pbar_dict,
                 ckpt, lossAt, derivAt, accepted, trials, evals, route,
                 iter_start, cgVars, hessVars>>

\* params = params_new; best-so-far update; prev_loss = loss; diagnostics.
\* params_new is unbound (NameError) when no branch has assigned it yet.
Bookkeeping ==
  /\ pc = "book"
  /\ IF params_new = Undef
       THEN /\ pc' = "crashed"
            /\ UNCHANGED <<params, optimal_params, lowest_loss, prev_loss,
                           pbar_dict, global_step, accepted>>
       ELSE /\ params' = params_new
            /\ IF NewBest(loss, lowest_loss)
                 THEN optimal_params' = params' /\ lowest_loss' = loss
                 ELSE UNCHANGED <<optimal_params, lowest_loss>>
            /\ prev_loss' = loss
            /\ pbar_dict' = <<loss, lambda_norm, t, i>>
            /\ accepted' = Append(accepted, loss)
            /\ global_step' = global_step + 1
            /\ pc' = "loop"
  /\ UNCHANGED <<epochs, max_iter, t, i, g, hess, step, lambda_norm,
                 upper_bound, params_new, loss, it, n_logged, ckpt, lossAt,
                 derivAt, trials, evals, route, exit_cause,
                 iter_start, cgVars, hessVars>>

\* the averages over the measurement lists divide by their length
\* (ZeroDivisionError when no iteration ran); then torch.save(optimal_params)
Finalize ==
  /\ pc = "finalize"
  /\ IF n_logged = 0
       THEN pc' = "crashed" /\ UNCHANGED ckpt
       ELSE pc' = "done" /\ ckpt' = SavedValue(optimal_params, params)
  /\ UNCHANGED <<epochs, max_iter, params, prev_loss, optimal_params,
                 lowest_loss, t, i, global_step, g, hess, step, lambda_norm,
                 upper_bound, params_new, loss, it, n_logged, pbar_dict,
                 lossAt, derivAt, accepted, trials, evals, route,
                 exit_cause,
                 iter_start, cgVars, hessVars>>

MainNext ==
  \/ Gradient
  \/ BudgetExhausted
  \/ ComputeStep
  \/ CurvatureGuard
  \/ NonDescentFallback
  \/ LineSearchTry
  \/ LineSearchExhausted
  \/ LineSearchCheck
  \/ Bookkeeping
  \/ Finalize

(***************************************************************************)
(* conjugate_gradient(p, func, g).  The Hessian-vector product             *)
(* vhp(func, p, p_t) is p_t^T H for the Hessian H of func at p.            *)
(***************************************************************************)
EpsInv == 8388608      \* 1 / torch.finfo(torch.float32).eps = 2^23

\* variant: the threshold 1 in place of eps
AboveOne(s) == RLess(ROne, s)

\* torch.norm(r) > eps, decided on the squared norm s = r @ r
AboveEps(s) ==
  IF s[2] = 0 THEN s[1] > 0
  ELSE IF s[1] >= 256 THEN TRUE
  ELSE s[1] * EpsInv > s[2] \div EpsInv

Vhp(hessian, v) == MatVec(Transpose(hessian), v)

\* alpha_t = (r_t @ r_t) / (p_t @ Ap_t)
CGAlpha(r, p, Ap) == RDiv(Dot(r, r), Dot(p, Ap))

\* r_new = r_t + alpha_t * Ap_t
CGResidual(r, a, Ap) == VAdd(r, VScale(a, Ap))

\* beta_t = (r_new @ r_new) / (r_t @ r_t)
CGBeta(r_new, r) == RDiv(Dot(r_new, r_new), Dot(r, r))

\* p_t = -r_new + beta_t * p_t
CGDirection(r_new, b, p) == VAdd(VNeg(r_new), VScale(b, p))

\* variant: the accumulated v_t returned as it is
CGReturnUnnegated(v) == v

\* return -v_t
CGReturnValue(v) == VNeg(v)

Identity3 == Mat(<<<<1, 0, 0>>, <<0, 1, 0>>, <<0, 0, 1>>>>)
Diag123 == Mat(<<<<1, 0, 0>>, <<0, 2, 0>>, <<0, 0, 3>>>>)

\* Hessians of func at p: positive definite ones, and others
CGHessians2 ==
  { Identity2, Mat(<<<<1, 0>>, <<0, 2>>>>), Mat(<<<<2, 1>>, <<1, 2>>>>),
    Mat(<<<<2, 1>>, <<1, 1>>>>), NegIdentity2, Rank1, Zero2 }
CGGrads2 == {Vec(<<a, b>>) : a, b \in -1..1}
CGInputs ==
  {<<h, gr>> : h \in CGHessians2, gr \in CGGrads2}
    \cup {<<Diag123, Vec(<<1, 1, 1>>)>>, <<Identity3, Vec(<<1, -1, 0>>)>>}

CGIdle ==
  /\ cg_hess = Undef
  /\ cg_g = Undef
  /\ r_t = Undef
  /\ p_t = Undef
  /\ v_t = Undef
  /\ cg_pc = "idle"
  /\ cg_ret = Undef
  /\ cg_iters = 0

\* r_t = -g; p_t = g; v_t = torch.zeros_like(g)
CGInit ==
  /\ \E in \in CGInputs : cg_hess = in[1] /\ cg_g = in[2]
  /\ r_t = VNeg(cg_g)
  /\ p_t = cg_g
  /\ v_t = ZerosLike(cg_g)
  /\ cg_pc = "while"
  /\ cg_ret = Undef
  /\ cg_iters = 0

\* one pass of the while loop
CGIterate ==
  /\ cg_pc = "while"
  /\ AboveEps(Dot(r_t, r_t))
  /\ LET Ap_t == Vhp(cg_hess, p_t)
         alpha_t == CGAlpha(r_t, p_t, Ap_t)
         r_new == CGResidual(r_t, alpha_t, Ap_t)
         beta_t == CGBeta(r_new, r_t)
     IN  /\ v_t' = VAdd(v_t, VScale(alpha_t, p_t))
         /\ p_t' = CGDirection(r_new, beta_t, p_t)
         /\ r_t' = r_new
  /\ cg_iters' = cg_iters + 1
  /\ UNCHANGED <<cg_hess, cg_g, cg_pc, cg_ret, mainVars, hessVars>>

\* the loop condition is false: return -v_t
CGReturn ==
  /\ cg_pc = "while"
  /\ ~AboveEps(Dot(r_t, r_t))
  /\ cg_ret' = CGReturnValue(v_t)
  /\ cg_pc' = "returned"
  /\ UNCHANGED <<cg_hess, cg_g, r_t, p_t, v_t, cg_iters, mainVars, hessVars>>

(***************************************************************************)
(* hess_func(): with batch_size > 1 the sum over the batches of            *)
(* unfold_input.split(batch_size) of the Hessian of the batch's loss, else *)
(* the Hessian of the loss of all frames.  The loss is a sum over frames   *)
(* (mse_loss with reduction="sum"), so the Hessian of a batch's loss is    *)
(* the sum of the Hessians of its frames.                                  *)
(***************************************************************************)
FrameHessians == {Identity2, Rank1, NegIdentity2}

\* number of chunks of Tensor.split(batch_size) on n frames
NumBatches(n, bs) == (n + bs - 1) \div bs

\* variant: an incomplete last chunk is dropped
SplitDropLast(n, bs) == [c \in 1..(n \div bs) |-> <<(c - 1) * bs + 1, c * bs>>]

\* Tensor.split(batch_size): first and last frame of every chunk
Split(n, bs) ==
  [c \in 1..NumBatches(n, bs) |->
     <<(c - 1) * bs + 1, IF c * bs < n THEN c * bs ELSE n>>]

RECURSIVE SumFrames(_, _, _)
SumFrames(fr, lo, hi) ==
  IF hi < lo THEN Zero2 ELSE MatAdd(SumFrames(fr, lo, hi - 1), fr[hi])

\* base_hess_func(get_param2loss(x, y), inputs=params) for one chunk
BatchHessian(fr, chunk) == SumFrames(fr, chunk[1], chunk[2])

Range(lo, hi) == [k \in 1..(hi - lo + 1) |-> lo + k - 1]

HessIdle ==
  /\ frames = << >>
  /\ batch_size = 1
  /\ hb_next = 1
  /\ hb_acc = Zero2
  /\ hb_pc = "idle"
  /\ hb_ret = Undef
  /\ hb_used = << >>

HessInit ==
  /\ frames \in UNION {[1..n -> FrameHessians] : n \in 1..MaxFrames}
  /\ batch_size \in 1..(MaxFrames + 1)
  /\ hb_next = 1
  /\ hb_acc = Zero2
  /\ hb_pc = "call"
  /\ hb_ret = Undef
  /\ hb_used = << >>

\* batch_size <= 1: hess_func = lambda: base_hess_func(param2loss, params)
HessUnbatched ==
  /\ hb_pc = "call"
  /\ ~(batch_size > 1)
  /\ hb_ret' = BatchHessian(frames, <<1, Len(frames)>>)
  /\ hb_used' = Range(1, Len(frames))
  /\ hb_pc' = "done"
  /\ UNCHANGED <<frames, batch_size, hb_next, hb_acc, mainVars, cgVars>>

\* batch_size > 1: sum(...) takes the Hessian of the next chunk
HessBatch ==
  /\ hb_pc = "call"
  /\ batch_size > 1
  /\ hb_next <= Len(Split(Len(frames), batch_size))
  /\ LET chunk == Split(Len(frames), batch_size)[hb_next]
     IN  /\ hb_acc' = MatAdd(hb_acc, BatchHessian(frames, chunk))
         /\ hb_used' = hb_used \o Range(chunk[1], chunk[2])
  /\ hb_next' = hb_next + 1
  /\ UNCHANGED <<frames, batch_size, hb_pc, hb_ret, mainVars, cgVars>>

\* sum(...) has consumed every chunk
HessReturn ==
  /\ hb_pc = "call"
  /\ batch_size > 1
  /\ hb_next > Len(Split(Len(frames), batch_size))
  /\ hb_ret' = hb_acc
  /\ hb_pc' = "done"
  /\ UNCHANGED <<frames, batch_size, hb_next, hb_acc, hb_used, mainVars,
                 cgVars>>

(***************************************************************************)
(* Specifications: the optimisation loop in direct mode; one call of       *)
(* conjugate_gradient; one call of hess_func.                              *)
(***************************************************************************)
vars == <<mainVars, cgVars, hessVars>>

Init == MainInit /\ CGIdle /\ HessIdle
Next == MainNext
Spec == Init /\ [][Next]_vars

MainIdle ==
  /\ MainInit
  /\ epochs = 0
  /\ max_iter = 0

InitCG == MainIdle /\ CGInit /\ HessIdle
NextCG == CGIterate \/ CGReturn
SpecCG == InitCG /\ [][NextCG]_vars

InitHess == MainIdle /\ CGIdle /\ HessInit
NextHess == HessUnbatched \/ HessBatch \/ HessReturn
SpecHess == InitHess /\ [][NextHess]_vars

(***************************************************************************)
(* Properties of the optimisation loop.                                    *)
(***************************************************************************)
RECURSIVE MinLossUpTo(_, _)
MinLossUpTo(ls, n) ==
  IF n = 1 THEN ls[1]
  ELSE LET m == MinLossUpTo(ls, n - 1)
       IN  IF RLess(ls[n], m) THEN ls[n] ELSE m
MinLoss(ls) == MinLossUpTo(ls, Len(ls))

\* C1: lowest_loss never increases from one step of the run to the next, and
\* it always equals the minimum of the initial loss and the losses of the
\* iterates accepted so far (by the line search or by the fallback).
C1_MonotonicBest ==
  /\ [](lowest_loss = MinLoss(accepted))
  /\ [][RLeq(lowest_loss', lowest_loss)]_vars

\* two iterations were accepted, the first improved the best, the second
\* was worse than the best
C1_Witness ==
  /\ pc = "loop"
  /\ Len(accepted) = 3
  /\ RLess(accepted[2], accepted[1])
  /\ RLess(accepted[2], accepted[3])

\* C2: the loss of optimal_params is lowest_loss in every state; the pair
\* changes only in the bookkeeping of an iteration whose accepted loss is
\* strictly below lowest_loss, and then to the accepted point and its loss;
\* every other step leaves both unchanged.
C2_BestParamsMatch ==
  /\ [](lossAt[optimal_params] = lowest_loss)
  /\ [][(optimal_params' # optimal_params \/ lowest_loss' # lowest_loss)
          => /\ pc = "book"
             /\ RLess(loss, lowest_loss)
             /\ optimal_params' = params_new
             /\ lowest_loss' = loss
             /\ lossAt[params_new] = loss]_vars

\* the best was replaced once, and a later accepted iterate left it alone
C2_Witness ==
  /\ pc = "loop"
  /\ optimal_params # InitParams
  /\ params # optimal_params

\* C3: for max_iter >= 1 a finished line search has failed exactly when none
\* of its tries had loss < upper_bound; otherwise the loop goes on to the
\* bookkeeping.
C3_LineSearchOutcome ==
  (max_iter >= 1 /\ route = "linesearch" /\ pc \in {"book", "finalize"})
    => /\ (exit_cause = "break") <=> ~(\E k \in 1..Len(trials) : trials[k].broke)
       /\ (pc = "book") <=> (\E k \in 1..Len(trials) : trials[k].broke)

\* C4: once the line search has failed the loop is over: no further
\* iteration and no further oracle call; the current parameters, the best
\* parameters and the best loss are those the failing iteration started
\* with, and the value saved is that best, a defined value.
C4_FailureKeepsProgress ==
  /\ [](exit_cause = "break"
         => /\ pc \in {"finalize", "done"}
            /\ params = iter_start.params
            /\ optimal_params = iter_start.optimal_params
            /\ lowest_loss = iter_start.lowest_loss
            /\ (pc = "done"
                  => ckpt = iter_start.optimal_params /\ ckpt # Undef))
  /\ [][exit_cause' = "break"
          => UNCHANGED <<evals, global_step, lossAt, derivAt>>]_vars

\* a failed run whose last iterate is not the best and whose failed trial
\* point is not the current point has been finalised
C4_Witness ==
  /\ pc = "done"
  /\ exit_cause = "break"
  /\ params # optimal_params
  /\ params_new # params

\* C5: whatever the budget (epochs >= 0) and the cause of termination, the
\* run ends in the finalisation, and what is saved there is optimal_params,
\* whose loss is lowest_loss.
C5_FinalizationAlways ==
  pc \in {"done", "crashed"}
    => /\ pc = "done"
       /\ ckpt = optimal_params
       /\ lossAt[ckpt] = lowest_loss

\* C6: lambda_norm is -(g . step).  A negative value takes the fallback
\* only: no line-search try, one loss evaluation, at params + step with the
\* replacement step, and the point is accepted whatever its loss.  A value
\* >= 0, zero included, takes the line search only.  step = -g goes to the
\* line search, step = g with g nonzero to the fallback.
C6_CurvatureRouting ==
  /\ [](pc \in {"fallback", "ls"}
         => /\ lambda_norm = Dot(VNeg(g), step)
            /\ (step = VNeg(g) => route = "linesearch")
            /\ (step = g /\ g # ZerosLike(g) => route = "fallback"))
  /\ [](route = "fallback"
         => /\ RLess(lambda_norm, RZero)
            /\ trials = << >>
            /\ (pc = "book"
                  => /\ evals = iter_start.evals + 1
                     /\ params_new = VAdd(params, step)
                     /\ lossAt[params_new] = loss))
  /\ [](route = "linesearch"
         => /\ ~RLess(lambda_norm, RZero)
            /\ evals - iter_start.evals = Len(trials))
  /\ [][pc = "book" /\ route = "fallback"
          => /\ pc' = "loop"
             /\ params' = params_new
             /\ prev_loss' = loss
             /\ exit_cause' = "none"]_vars

\* the second iteration took the fallback and evaluated its point
C6_Witness ==
  /\ pc = "book"
  /\ route = "fallback"
  /\ global_step = 1

\* C7: computing the step never ends the run; when the solve raises
\* (singular Hessian), the step is the negation of a least-squares solution
\* x of hess x = g, that is hess^T (hess x - g) = 0, and the iteration goes
\* on to the curvature check.
C7_SingularFallback ==
  [][pc = "step"
       => /\ pc' = "curv"
          /\ (Det(hess') = RZero
                => MatVec(Transpose(hess'),
                          VAdd(MatVec(hess', VNeg(step')), VNeg(g)))
                     = ZerosLike(g))]_vars

\* a singular Hessian gave a nonzero step
C7_Witness ==
  /\ pc = "curv"
  /\ Det(hess) = RZero
  /\ step # ZerosLike(step)

(***************************************************************************)
(* Properties of conjugate_gradient (under SpecCG).                        *)
(***************************************************************************)
Leading(H, k) == [r \in 1..k |-> [c \in 1..k |-> H[r][c]]]

\* symmetric, with positive leading principal minors
IsSPD(H) ==
  /\ H = Transpose(H)
  /\ \A k \in 1..Len(H) : RLess(RZero, Det(Leading(H, k)))

\* C8: for a symmetric positive-definite Hessian H and any g, the while loop
\* makes at most D passes (D the dimension), after which its condition is
\* false, and the step returned satisfies H step = -g and is the step
\* direct_hess_step computes from the same H and g.
C8_CGEquivalence ==
  (cg_pc # "idle" /\ IsSPD(cg_hess))
    => /\ cg_iters <= Len(cg_g)
       /\ (cg_pc = "while" /\ cg_iters = Len(cg_g)
             => ~AboveEps(Dot(r_t, r_t)))
       /\ (cg_pc = "returned"
             => /\ MatVec(cg_hess, cg_ret) = VNeg(cg_g)
                /\ cg_ret = direct_hess_step(cg_hess, cg_g))

\* a positive-definite system that needed as many passes as it has
\* dimensions, more than one
C8_Witness ==
  /\ cg_pc = "returned"
  /\ IsSPD(cg_hess)
  /\ cg_iters = Len(cg_g)
  /\ cg_iters >= 2

(***************************************************************************)
(* Properties of hess_func (under SpecHess).                               *)
(***************************************************************************)
\* C9: with batching enabled the Hessian returned is the sum of the
\* per-batch Hessians, every frame of the data contributing exactly once,
\* and it equals the Hessian of the loss of all frames, for every batch size.
C9_BatchSumEquivalence ==
  /\ hb_used = Range(1, Len(hb_used))
  /\ (hb_pc = "done" /\ batch_size > 1)
       => /\ hb_ret = SumFrames(frames, 1, Len(frames))
          /\ hb_used = Range(1, Len(frames))

\* three frames in batches of two: the last batch is incomplete
C9_Witness ==
  /\ hb_pc = "done"
  /\ batch_size = 2
  /\ Len(frames) = 3
  /\ frames[3] # Zero2
  /\ frames[1] # frames[3]

(***************************************************************************)
(* The acceptance bound of the line search (under Spec).                   *)
(***************************************************************************)
\* C10: try k of a line search is made with t = beta^k and breaks exactly
\* when its loss is below prev_loss + alpha * beta^k * max(lambda_norm, 0).
C10_BoundTracksMultiplier ==
  pc \in {"ls", "lscheck"}
    => \A k \in 1..Len(trials) :
         /\ trials[k].t = RPow(beta, k - 1)
         /\ trials[k].broke
              <=> RLess(trials[k].loss,
                        RAdd(prev_loss,
                             RMul(RMul(alpha, trials[k].t),
                                  Relu(lambda_norm))))

(***************************************************************************)
(* The result of the line search and of the fallback (under Spec).         *)
(***************************************************************************)
SomeTryBroke == \E k \in 1..Len(trials) : trials[k].broke

FirstBroke ==
  CHOOSE k \in 1..Len(trials) :
    trials[k].broke /\ \A j \in 1..(k - 1) : ~trials[j].broke

\* C11: a line search starts with t = 1; once one of its tries has loss
\* below the bound, the search accepts: the point installed is params +
\* beta^k step for the first such try k, the loss is the loss at that point,
\* the multiplier reported is beta^k and the next prev_loss is that loss.
\* In particular a first try below the bound is accepted with t = 1.
C11_AcceptedLineSearch ==
  /\ (pc = "ls" /\ it = 0 => t = ROne)
  /\ (route = "linesearch" /\ pc \notin {"ls", "lscheck"} /\ SomeTryBroke)
       => LET tk == RPow(beta, FirstBroke - 1)
              at == VAdd(iter_start.params, VScale(tk, step))
          IN  /\ exit_cause # "break"
              /\ params_new = at
              /\ loss = lossAt[at]
              /\ t = tk
              /\ (pc # "book"
                    => /\ params = at
                       /\ prev_loss = loss
                       /\ pbar_dict[3] = tk)

\* C12: the replacement step of the fallback branch has zero inner product
\* with the step it replaces (the step computed from hess and g).
C12_OrthogonalReplacement ==
  (pc = "book" /\ route = "fallback")
    => Dot(step, direct_hess_step(hess, g)) = RZero

\* C13: the loop ends: at most epochs iterations are made, an iteration
\* makes at most max_iter tries and loss evaluations in its line search, or
\* one evaluation in the fallback, and the loop is left only because the
\* budget is used up or the line search has failed.
C13_LoopTermination ==
  /\ global_step <= epochs
  /\ evals - iter_start.evals <= (IF route = "fallback" THEN 1 ELSE max_iter)
  /\ (route = "linesearch" => it <= max_iter /\ Len(trials) = it)
  /\ (pc \in {"finalize", "done", "crashed"}
        => exit_cause \in {"exhausted", "break"})

(***************************************************************************)
(* The exit of conjugate_gradient (under SpecCG).                          *)
(***************************************************************************)
\* the squared residual norm is zero or not a number: every other squared
\* norm the model can hold exceeds eps squared
ResidualNotAboveEps == Dot(r_t, r_t) = RZero \/ IsNaN(Dot(r_t, r_t))

\* C14: the loop starts with r = -g, p = g, v = 0; it returns only from a
\* state whose residual norm is not above eps, and returns -v; with g = 0
\* it returns the zero step without a Hessian-vector product; while the
\* residual norm is above eps, whatever the number of passes made, the only
\* step is another pass, and the return is the only step once it is not.
C14_CGExit ==
  /\ [](cg_pc = "while" /\ cg_iters = 0
          => r_t = VNeg(cg_g) /\ p_t = cg_g /\ v_t = ZerosLike(cg_g))
  /\ [](cg_pc = "returned" => ResidualNotAboveEps /\ cg_ret = VNeg(v_t))
  /\ [](cg_pc = "returned" /\ cg_g = ZerosLike(cg_g)
          => cg_iters = 0 /\ cg_ret = ZerosLike(cg_g))
  /\ [][cg_pc = "while" /\ ~ResidualNotAboveEps
          => cg_pc' = "while" /\ cg_iters' = cg_iters + 1]_vars
  /\ [][cg_pc = "while" /\ ResidualNotAboveEps
          => cg_pc' = "returned" /\ cg_iters' = cg_iters]_vars

\* a call that made passes and returned once the residual was zero
C14_Witness ==
  /\ cg_pc = "returned"
  /\ cg_iters >= 2
  /\ Dot(r_t, r_t) = RZero
  /\ cg_ret # ZerosLike(cg_g)

(***************************************************************************)
(* The diagnostics of an iteration (under Spec).                           *)
(***************************************************************************)
\* C15: the multiplier and the inner-iteration count recorded for an
\* iteration are those the iteration used: after a fallback iteration,
\* which applies its step with multiplier 1 and makes no line search, the
\* record holds t = 1 and inner_iter = 0; after a line-search iteration it
\* holds the multiplier and the index of the try that was installed.
C15_DiagnosticsOfIteration ==
  (pc = "loop" /\ pbar_dict # Undef)
    => /\ (route = "fallback"
             => /\ pbar_dict[3] = ROne
                /\ pbar_dict[4] = 0
                /\ params = VAdd(iter_start.params, VScale(pbar_dict[3], step)))
       /\ (route = "linesearch" /\ SomeTryBroke
             => /\ pbar_dict[3] = trials[FirstBroke].t
                /\ pbar_dict[4] = FirstBroke - 1)

(***************************************************************************)
(* Zero curvature and the zero step (under Spec).                          *)
(***************************************************************************)
ZeroStep == step # Undef /\ step = ZerosLike(step)

\* C16: with curvature 0 a try of the line search is accepted exactly when
\* its loss is strictly below prev_loss.  When the computed step is the zero
\* vector and max_iter >= 1, every one of the max_iter tries is made at the
\* current parameters and rejected, the loop ends by the line-search-failed
\* break in that iteration, and the current parameters, the best-so-far
\* parameters and the lowest loss are those the iteration started with.
C16_ZeroCurvatureStrict ==
  /\ (route = "linesearch" /\ lambda_norm = RZero /\ pc \in {"ls", "lscheck"})
       => \A k \in 1..Len(trials) :
            trials[k].broke <=> RLess(trials[k].loss, prev_loss)
  /\ (route = "linesearch" /\ ZeroStep)
       => /\ lambda_norm = RZero
          /\ \A k \in 1..Len(trials) :
               /\ ~trials[k].broke
               /\ trials[k].at = iter_start.params
               /\ trials[k].loss = prev_loss
          /\ (max_iter >= 1 /\ pc \notin {"ls", "lscheck"})
               => /\ pc \in {"finalize", "done"}
                  /\ exit_cause = "break"
                  /\ Len(trials) = max_iter
                  /\ params = iter_start.params
                  /\ optimal_params = iter_start.optimal_params
                  /\ lowest_loss = iter_start.lowest_loss

C16_Witness ==
  /\ pc = "done" /\ exit_cause = "break" /\ route = "linesearch" /\ ZeroStep
  /\ max_iter >= 2 /\ Len(trials) = max_iter
  /\ Len(accepted) >= 2
  /\ params = iter_start.params

(***************************************************************************)
(* What an accepted iterate guarantees (under Spec).                       *)
(***************************************************************************)
\* prev_loss + alpha * max(curvature, 0)
FullStepBound(prev, lam) == RAdd(prev, RMul(alpha, Relu(lam)))

\* C17: every try the line search accepts has a loss strictly below
\* prev_loss + alpha * max(curvature, 0); for max_iter >= 2 the prev_loss
\* left by a line-search iteration is strictly below that value computed
\* from the prev_loss the iteration started with; and lowest_loss is never
\* above any accepted loss, whichever branch accepted it.
C17_AcceptanceBound ==
  /\ (route = "linesearch" /\ pc \in {"ls", "lscheck"})
       => \A k \in 1..Len(trials) :
            trials[k].broke
              => RLess(trials[k].loss, FullStepBound(prev_loss, lambda_norm))
  /\ (route = "linesearch" /\ pc = "loop" /\ max_iter >= 2
        /\ Len(accepted) >= 2)
       => /\ prev_loss = accepted[Len(accepted)]
          /\ RLess(prev_loss,
                   FullStepBound(accepted[Len(accepted) - 1], lambda_norm))
  /\ \A k \in 1..Len(accepted) : RLeq(lowest_loss, accepted[k])

\* the first iteration took the fallback and raised the loss, the second was
\* a line search that accepted a loss above lowest_loss
C17_Witness ==
  /\ pc = "loop" /\ route = "linesearch" /\ max_iter >= 2
  /\ Len(accepted) = 3
  /\ NonDescent(Curvature(derivAt[InitParams].g,
                          direct_hess_step(derivAt[InitParams].hess,
                                           derivAt[InitParams].g)))
  /\ RLess(accepted[1], accepted[2])
  /\ RLess(lowest_loss, prev_loss)
  /\ RLess(RZero, lambda_norm)
=============================================================================
